---- MODULE Spec2Model ----
(***************************************************************************)
(* Model of the EnhancedVoiceRecognition widget (SpeechToText.tsx) and of  *)
(* the useGeminiAPI hook (googleGemini.ts): the React state of the widget, *)
(* the recognition session, the generation requests in flight and the      *)
(* speech-synthesis queue, driven by the browser's events and the user's   *)
(* clicks and edits.                                                       *)
(*                                                                         *)
(* A string is a sequence of one-character strings, so that split(" "),    *)
(* trim() and concatenation are computed as the code computes them.        *)
(***************************************************************************)
EXTENDS Integers, Sequences, FiniteSets, TLC

VARIABLES
    isListening,      \* useState: the recognition session is listening
    text,             \* useState: the finalized transcript (editable)
    interimResult,    \* useState: the interim text
    isResponding,     \* useState: a generation call is being awaited
    response,         \* useState: the reply text
    isSpeaking,       \* useState: a playback is under way
    recognitionRef,   \* useRef: "null" or "recognition"
    hasRecognition,   \* the platform offers SpeechRecognition
    rec,              \* recognition capability: "idle", "starting", "active"
    inflight,         \* generation requests awaiting their completion
    calls,            \* generation calls issued so far
    succeeded,        \* generation calls that resolved so far
    failed,           \* generation calls that rejected so far
    notifications,    \* number of message.error notifications surfaced
    voices,           \* speechSynthesis.getVoices() is non-empty
    onvoiceschanged,  \* speechSynthesis.onvoiceschanged: 0 or a speak call
    speakCalls,       \* chunkAndSpeak invocations: the chunks of each closure
    chains,           \* playbacks started by speakChunk(0, ...)
    queue,            \* speechSynthesis utterance queue, head is spoken
    interrupted,      \* cancelled utterances awaiting their notification
    timers,           \* pending setTimeout callbacks, in firing order
    finals,           \* transcripts delivered as final in this session
    updates,          \* recognition updates delivered so far
    edited,           \* the user edited the text during this session
    inputs,           \* the user's clicks and edits so far
    voiceEvents       \* voiceschanged events so far

vars == <<isListening, text, interimResult, isResponding, response, isSpeaking,
          recognitionRef, hasRecognition, rec, inflight, calls, succeeded,
          failed, notifications, voices, onvoiceschanged, speakCalls, chains,
          queue, interrupted, timers, finals, updates, edited, inputs,
          voiceEvents>>

(***************************************************************************)
(* Bounds of the model.                                                    *)
(***************************************************************************)
MaxInputs == 2
MaxUpdates == 2
MaxVoiceEvents == 2

(***************************************************************************)
(* Strings.                                                                *)
(***************************************************************************)
IsSpace(c) == c \in {" ", "\n", "\t"}

RECURSIVE TrimStart(_)
TrimStart(s) ==
    IF s # <<>> /\ IsSpace(Head(s)) THEN TrimStart(Tail(s)) ELSE s

RECURSIVE TrimEnd(_)
TrimEnd(s) ==
    IF s # <<>> /\ IsSpace(s[Len(s)]) THEN TrimEnd(SubSeq(s, 1, Len(s) - 1)) ELSE s

\* String.prototype.trim
Trim(s) == TrimEnd(TrimStart(s))

\* String.prototype.split(" "): the pieces between single space characters,
\* empty pieces included; "" splits into [""].
RECURSIVE SplitFrom(_, _, _)
SplitFrom(s, i, cur) ==
    IF i > Len(s) THEN <<cur>>
    ELSE IF s[i] = " " THEN <<cur>> \o SplitFrom(s, i + 1, <<>>)
    ELSE SplitFrom(s, i + 1, Append(cur, s[i]))

Split(s) == SplitFrom(s, 1, <<>>)

\* Array.prototype.join(" ")
RECURSIVE Join(_)
Join(ws) ==
    IF ws = <<>> THEN <<>>
    ELSE IF Len(ws) = 1 THEN ws[1]
    ELSE ws[1] \o <<" ">> \o Join(Tail(ws))

\* Array.prototype.slice(from, to), zero-based, `to` excluded and clipped.
Slice(ws, from, to) ==
    SubSeq(ws, from + 1, IF to > Len(ws) THEN Len(ws) ELSE to)

chunkSize == 25

\* for (let i = 0; i < words.length; i += chunkSize)
\*     chunks.push(words.slice(i, i + chunkSize).join(" "))
RECURSIVE ChunksFrom(_, _)
ChunksFrom(words, i) ==
    IF i >= Len(words) THEN <<>>
    ELSE <<Join(Slice(words, i, i + chunkSize))>> \o ChunksFrom(words, i + chunkSize)

Chunks(t) == ChunksFrom(Split(t), 0)

\* The fixed sentence generateContent appends to every prompt.
BrevitySuffix ==
    <<"you can say in it 2 to 3 sentences only yu don thave to generate a huge response for this.">>

(***************************************************************************)
(* Inputs.                                                                 *)
(***************************************************************************)
\* n words, "a" and "b" alternating, separated by single spaces.
RECURSIVE Sentence(_)
Sentence(n) ==
    IF n = 0 THEN <<>>
    ELSE IF n = 1 THEN <<"a">>
    ELSE Sentence(n - 1) \o <<" ", IF n % 2 = 0 THEN "b" ELSE "a">>

\* Completions of the text-generation capability.
Completions ==
    { <<>>, Sentence(chunkSize + 1), Sentence(chunkSize) \o <<" ">> }

\* The completions that fit one chunk.
ShortCompletions == { <<>>, <<"h", "i">> }

\* Transcripts of recognition results.
Transcripts == { <<"a">>, <<"b">> }

Results == [transcript : Transcripts, isFinal : BOOLEAN]

\* event.results from event.resultIndex on: one result, or two of which the
\* first is final (the capability finalizes its results in order, so that
\* interim results follow the final ones).
Updates ==
    { <<r>> : r \in Results }
        \cup { <<r, q>> : r \in { x \in Results : x.isFinal }, q \in Results }

\* What the user can make of the text field: type a character at the end or
\* delete the last one.
EditValues(cur) ==
    { Append(cur, "x"), Append(cur, " ") }
        \cup (IF cur = <<>> THEN {} ELSE { SubSeq(cur, 1, Len(cur) - 1) })

(***************************************************************************)
(* Initial state: the component has mounted and its mount effect has run   *)
(* initializeSpeechRecognition once.                                       *)
(***************************************************************************)
Init ==
    /\ isListening = FALSE
    /\ text = <<>>
    /\ interimResult = <<>>
    /\ isResponding = FALSE
    /\ response = <<>>
    /\ isSpeaking = FALSE
    /\ hasRecognition \in BOOLEAN
    /\ recognitionRef = IF hasRecognition THEN "recognition" ELSE "null"
    /\ rec = "idle"
    /\ inflight = <<>>
    /\ calls = 0
    /\ succeeded = 0
    /\ failed = 0
    /\ notifications = 0
    /\ voices \in BOOLEAN
    /\ onvoiceschanged = 0
    /\ speakCalls = <<>>
    /\ chains = <<>>
    /\ queue = <<>>
    /\ interrupted = {}
    /\ timers = <<>>
    /\ finals = <<>>
    /\ updates = 0
    /\ edited = FALSE
    /\ inputs = 0
    /\ voiceEvents = 0

\* What the recognition handlers and the text field write, besides text and
\* isListening.
sessionVars == <<interimResult, recognitionRef, hasRecognition, rec, finals,
                 updates, edited>>

\* What the completion of a generation call writes, besides playback.
replyVars == <<response, succeeded, failed, notifications>>

\* The synthesis capability and the playbacks.
synthVars == <<voices, onvoiceschanged, speakCalls, chains, queue, interrupted,
               timers, voiceEvents, isSpeaking>>

\* What the effect writes.
effectVars == <<text, isListening, inflight, calls, isResponding>>

(***************************************************************************)
(* The effect on [text, generateContent, isListening, chunkAndSpeak]: it   *)
(* runs after a render in which text or isListening changed, and calls     *)
(* generateAIResponse when !isListening && text.trim().                    *)
(***************************************************************************)
EffectRuns(t, l) ==
    /\ t # text \/ l # isListening
    /\ ~l
    /\ Trim(t) # <<>>

\* generateContent(prompt): the request handed to model.generateContent.
NewRequest(prompt) ==
    [prompt |-> prompt, sent |-> prompt \o BrevitySuffix]

\* A render that commits text = t and isListening = l, followed by the effect:
\* setIsResponding(true) and generateContent(text).
Commit(t, l) ==
    /\ text' = t
    /\ isListening' = l
    /\ IF EffectRuns(t, l)
       THEN /\ calls' = calls + 1
            /\ inflight' = Append(inflight, NewRequest(t))
            /\ isResponding' = TRUE
       ELSE UNCHANGED <<inflight, calls, isResponding>>

(***************************************************************************)
(* Recognition.                                                            *)
(***************************************************************************)
\* StartListening that surfaces no notification when there is no recognition.
StartListeningSilent ==
    /\ ~(isListening \/ isResponding)
    /\ inputs < MaxInputs
    /\ inputs' = inputs + 1
    /\ interimResult' = <<>>
    /\ Commit(<<>>, isListening)
    /\ recognitionRef' =
          IF recognitionRef = "null" /\ hasRecognition THEN "recognition"
          ELSE recognitionRef
    /\ IF recognitionRef' # "null"
       THEN /\ rec' = IF rec = "idle" THEN "starting" ELSE rec
            /\ finals' = IF rec = "idle" THEN <<>> ELSE finals
            /\ edited' = IF rec = "idle" THEN FALSE ELSE edited
       ELSE /\ finals' = <<>>
            /\ edited' = FALSE
            /\ UNCHANGED rec
    /\ UNCHANGED <<hasRecognition, updates, response, succeeded, failed,
                   notifications>>
    /\ UNCHANGED synthVars

\* The Start Recognition button, disabled while isListening || isResponding.
StartListening ==
    /\ ~(isListening \/ isResponding)
    /\ inputs < MaxInputs
    /\ inputs' = inputs + 1
    /\ interimResult' = <<>>
    /\ Commit(<<>>, isListening)
    /\ recognitionRef' =
          IF recognitionRef = "null" /\ hasRecognition THEN "recognition"
          ELSE recognitionRef
    /\ IF recognitionRef' # "null"
       THEN \* recognition.start(); it throws when the session has started
            /\ rec' = IF rec = "idle" THEN "starting" ELSE rec
            /\ finals' = IF rec = "idle" THEN <<>> ELSE finals
            /\ edited' = IF rec = "idle" THEN FALSE ELSE edited
            /\ UNCHANGED notifications
       ELSE \* message.error("Failed to start speech recognition ...")
            /\ notifications' = notifications + 1
            /\ finals' = <<>>
            /\ edited' = FALSE
            /\ UNCHANGED rec
    /\ UNCHANGED <<hasRecognition, updates, response, succeeded, failed>>
    /\ UNCHANGED synthVars

\* recognition.onstart
OnStart ==
    /\ rec = "starting"
    /\ rec' = "active"
    /\ Commit(text, TRUE)
    /\ UNCHANGED <<interimResult, recognitionRef, hasRecognition, finals,
                   updates, edited, inputs>>
    /\ UNCHANGED replyVars
    /\ UNCHANGED synthVars

\* FinalTranscript without the space that follows each final fragment.
RECURSIVE FinalTranscriptNoSpace(_)
FinalTranscriptNoSpace(u) ==
    IF u = <<>> THEN <<>>
    ELSE (IF Head(u).isFinal THEN Head(u).transcript ELSE <<>>)
            \o FinalTranscriptNoSpace(Tail(u))

\* The loop of recognition.onresult over event.results from event.resultIndex.
RECURSIVE FinalTranscript(_)
FinalTranscript(u) ==
    IF u = <<>> THEN <<>>
    ELSE (IF Head(u).isFinal THEN Head(u).transcript \o <<" ">> ELSE <<>>)
            \o FinalTranscript(Tail(u))

RECURSIVE InterimTranscript(_)
InterimTranscript(u) ==
    IF u = <<>> THEN <<>>
    ELSE (IF Head(u).isFinal THEN <<>> ELSE Head(u).transcript)
            \o InterimTranscript(Tail(u))

\* The transcripts of the results of update u flagged final, in order.
RECURSIVE FinalResults(_)
FinalResults(u) ==
    IF u = <<>> THEN <<>>
    ELSE (IF Head(u).isFinal THEN <<Head(u).transcript>> ELSE <<>>)
            \o FinalResults(Tail(u))

\* recognition.onresult
OnResult(u) ==
    /\ rec = "active"
    /\ updates < MaxUpdates
    /\ updates' = updates + 1
    /\ finals' = finals \o FinalResults(u)
    /\ Commit(IF FinalTranscript(u) # <<>> THEN text \o FinalTranscript(u) ELSE text,
              isListening)
    /\ interimResult' = InterimTranscript(u)
    /\ UNCHANGED <<recognitionRef, hasRecognition, rec, edited, inputs>>
    /\ UNCHANGED replyVars
    /\ UNCHANGED synthVars

\* recognition.onend
OnEnd ==
    /\ rec \in {"starting", "active"}
    /\ rec' = "idle"
    /\ Commit(text, FALSE)
    /\ UNCHANGED <<interimResult, recognitionRef, hasRecognition, finals,
                   updates, edited, inputs>>
    /\ UNCHANGED replyVars
    /\ UNCHANGED synthVars

\* OnError that also surfaces a notification.
OnErrorNotifies ==
    /\ rec \in {"starting", "active"}
    /\ rec' = "idle"
    /\ Commit(text, FALSE)
    /\ notifications' = notifications + 1
    /\ UNCHANGED <<interimResult, recognitionRef, hasRecognition, finals,
                   updates, edited, inputs>>
    /\ UNCHANGED <<response, succeeded, failed>>
    /\ UNCHANGED synthVars

\* recognition.onerror
OnError ==
    /\ rec \in {"starting", "active"}
    /\ rec' = "idle"
    /\ Commit(text, FALSE)
    /\ UNCHANGED <<interimResult, recognitionRef, hasRecognition, finals,
                   updates, edited, inputs>>
    /\ UNCHANGED replyVars
    /\ UNCHANGED synthVars

\* TextArea: value = text + interimResult, onChange sets text to the new value.
TextAreaChange(v) ==
    /\ inputs < MaxInputs
    /\ inputs' = inputs + 1
    /\ edited' = TRUE
    /\ Commit(v, isListening)
    /\ UNCHANGED <<interimResult, recognitionRef, hasRecognition, rec, finals,
                   updates>>
    /\ UNCHANGED replyVars
    /\ UNCHANGED synthVars

(***************************************************************************)
(* Playback.                                                               *)
(***************************************************************************)
Utterance(c, k) == [chain |-> c, idx |-> k]

\* new SpeechSynthesisUtterance(chunks[chunkIndex]): the text of utterance u.
UtteranceText(u) == speakCalls[chains[u.chain].call][u.idx + 1]

\* speakChunk(0, voices) of speak call s followed by setIsSpeaking(true):
\* a new playback of the call's chunks.
StartChain(s, closures) ==
    LET c == Len(chains) + 1
        chunks == closures[s]
    IN  /\ chains' = Append(chains,
                [call |-> s, cursor |-> IF 0 >= Len(chunks) THEN 0 ELSE 1,
                 ended |-> 0, stoppedAt |-> -1, stopRequested |-> FALSE,
                 done |-> 0 >= Len(chunks)])
        /\ queue' = IF 0 >= Len(chunks) THEN queue
                    ELSE Append(queue, Utterance(c, 0))
        /\ isSpeaking' = TRUE

\* chunkAndSpeak that starts the playback whether or not voices are loaded.
ChunkAndSpeakUndeferred(t) ==
    LET s == Len(speakCalls) + 1
        closures == Append(speakCalls, Chunks(t))
    IN  /\ speakCalls' = closures
        /\ StartChain(s, closures)
        /\ UNCHANGED onvoiceschanged

\* chunkAndSpeak(t)
ChunkAndSpeak(t) ==
    LET s == Len(speakCalls) + 1
        closures == Append(speakCalls, Chunks(t))
    IN  /\ speakCalls' = closures
        /\ IF voices
           THEN /\ StartChain(s, closures)
                /\ UNCHANGED onvoiceschanged
           ELSE /\ onvoiceschanged' = s
                /\ UNCHANGED <<chains, queue, isSpeaking>>

\* The Speak Again button, rendered when response is not empty.
SpeakAgain ==
    /\ response # <<>>
    /\ inputs < MaxInputs
    /\ inputs' = inputs + 1
    /\ ChunkAndSpeak(response)
    /\ UNCHANGED <<voices, interrupted, timers, voiceEvents>>
    /\ UNCHANGED <<sessionVars, effectVars, replyVars>>

\* The voiceschanged event of speechSynthesis and the handler installed by
\* chunkAndSpeak, which stays installed.
VoicesChanged ==
    /\ voiceEvents < MaxVoiceEvents
    /\ voiceEvents' = voiceEvents + 1
    /\ voices' = TRUE
    /\ IF onvoiceschanged # 0
       THEN StartChain(onvoiceschanged, speakCalls)
       ELSE UNCHANGED <<chains, queue, isSpeaking>>
    /\ UNCHANGED <<onvoiceschanged, speakCalls, interrupted, timers, inputs>>
    /\ UNCHANGED <<sessionVars, effectVars, replyVars>>

\* utterance.onend: setTimeout(() => speakChunk(chunkIndex + 1, voices), -1)
OnUtteranceEnd(u) ==
    /\ timers' = Append(timers, [chain |-> u.chain, idx |-> u.idx + 1])
    /\ chains' = [chains EXCEPT ![u.chain].ended = @ + 1]

\* The utterance being spoken completes: its end event.
UtteranceEnd ==
    /\ queue # <<>>
    /\ queue' = Tail(queue)
    /\ OnUtteranceEnd(Head(queue))
    /\ UNCHANGED <<voices, onvoiceschanged, speakCalls, interrupted, voiceEvents,
                   isSpeaking, inputs>>
    /\ UNCHANGED <<sessionVars, effectVars, replyVars>>

\* speakChunk that leaves isSpeaking as it is after the last chunk.
SpeakChunkKeepsSpeaking(c, k) ==
    IF k >= Len(speakCalls[chains[c].call])
    THEN /\ chains' = [chains EXCEPT ![c].done = TRUE]
         /\ UNCHANGED <<queue, isSpeaking>>
    ELSE /\ queue' = Append(queue, Utterance(c, k))
         /\ chains' = [chains EXCEPT ![c].cursor = @ + 1]
         /\ UNCHANGED isSpeaking

\* speakChunk(k, voices) of playback c, for k > 0.
SpeakChunk(c, k) ==
    IF k >= Len(speakCalls[chains[c].call])
    THEN /\ isSpeaking' = FALSE
         /\ chains' = [chains EXCEPT ![c].done = TRUE]
         /\ UNCHANGED queue
    ELSE /\ queue' = Append(queue, Utterance(c, k))
         /\ chains' = [chains EXCEPT ![c].cursor = @ + 1]
         /\ UNCHANGED isSpeaking

\* The callback scheduled by utterance.onend runs.
TimerFires ==
    /\ timers # <<>>
    /\ timers' = Tail(timers)
    /\ SpeakChunk(Head(timers).chain, Head(timers).idx)
    /\ UNCHANGED <<voices, onvoiceschanged, speakCalls, interrupted, voiceEvents,
                   inputs>>
    /\ UNCHANGED <<sessionVars, effectVars, replyVars>>

\* The playbacks that have an utterance in the synthesis queue.
Queued == { queue[i].chain : i \in DOMAIN queue }

\* The Stop Speaking button, disabled while !isSpeaking.
\* speechSynthesis.speaking holds while the queue holds an utterance; cancel()
\* empties the queue and interrupts the utterance being spoken; the playbacks
\* it removes from the queue record the cursor they were stopped at.  Every
\* unfinished playback records that stop() was invoked.
StopSpeaking ==
    /\ isSpeaking
    /\ IF queue # <<>>
       THEN /\ queue' = <<>>
            /\ interrupted' = interrupted \cup {Head(queue)}
            /\ isSpeaking' = FALSE
            /\ chains' = [c \in DOMAIN chains |->
                            [chains[c] EXCEPT
                               !.stoppedAt =
                                  IF c \in Queued /\ @ < 0 THEN chains[c].cursor ELSE @,
                               !.stopRequested = @ \/ ~chains[c].done]]
       ELSE /\ chains' = [c \in DOMAIN chains |->
                            [chains[c] EXCEPT !.stopRequested = @ \/ ~chains[c].done]]
            /\ UNCHANGED <<queue, interrupted, isSpeaking>>
    /\ UNCHANGED <<voices, onvoiceschanged, speakCalls, timers, voiceEvents,
                   inputs>>
    /\ UNCHANGED <<sessionVars, effectVars, replyVars>>

\* The capability notifies an interrupted utterance with an end event.
InterruptedEnd(u) ==
    /\ u \in interrupted
    /\ interrupted' = interrupted \ {u}
    /\ OnUtteranceEnd(u)
    /\ UNCHANGED <<voices, onvoiceschanged, speakCalls, queue, voiceEvents,
                   isSpeaking, inputs>>
    /\ UNCHANGED <<sessionVars, effectVars, replyVars>>

\* The capability notifies an interrupted utterance with an error event, for
\* which the utterance has no handler.
InterruptedError(u) ==
    /\ u \in interrupted
    /\ interrupted' = interrupted \ {u}
    /\ UNCHANGED <<voices, onvoiceschanged, speakCalls, chains, queue, timers,
                   voiceEvents, isSpeaking, inputs>>
    /\ UNCHANGED <<sessionVars, effectVars, replyVars>>

(***************************************************************************)
(* Generation.                                                             *)
(***************************************************************************)
\* The requests in flight without the r-th.
Without(r) == SubSeq(inflight, 1, r - 1) \o SubSeq(inflight, r + 1, Len(inflight))

\* await generateContent(text) resolves with completion c:
\* setResponse(result); chunkAndSpeak(result); finally setIsResponding(false).
GenerationSucceeds(r, c) ==
    /\ r \in DOMAIN inflight
    /\ inflight' = Without(r)
    /\ succeeded' = succeeded + 1
    /\ response' = c
    /\ ChunkAndSpeak(c)
    /\ isResponding' = FALSE
    /\ UNCHANGED <<text, isListening, calls, failed, notifications, voices,
                   interrupted, timers, voiceEvents, inputs>>
    /\ UNCHANGED sessionVars

\* GenerationFails leaving isResponding as it is.
GenerationFailsKeepsResponding(r) ==
    /\ r \in DOMAIN inflight
    /\ inflight' = Without(r)
    /\ failed' = failed + 1
    /\ notifications' = notifications + 1
    /\ UNCHANGED <<text, isListening, calls, succeeded, response, inputs,
                   isResponding>>
    /\ UNCHANGED <<sessionVars, synthVars>>

\* await generateContent(text) rejects: message.error(...); finally
\* setIsResponding(false).
GenerationFails(r) ==
    /\ r \in DOMAIN inflight
    /\ inflight' = Without(r)
    /\ failed' = failed + 1
    /\ notifications' = notifications + 1
    /\ isResponding' = FALSE
    /\ UNCHANGED <<text, isListening, calls, succeeded, response, inputs>>
    /\ UNCHANGED <<sessionVars, synthVars>>

Next ==
    \/ StartListening
    \/ OnStart
    \/ \E u \in Updates : OnResult(u)
    \/ OnEnd
    \/ OnError
    \/ \E v \in EditValues(text \o interimResult) : TextAreaChange(v)
    \/ SpeakAgain
    \/ VoicesChanged
    \/ UtteranceEnd
    \/ TimerFires
    \/ StopSpeaking
    \/ \E u \in interrupted : InterruptedEnd(u)
    \/ \E u \in interrupted : InterruptedError(u)
    \/ \E r \in DOMAIN inflight, c \in Completions : GenerationSucceeds(r, c)
    \/ \E r \in DOMAIN inflight : GenerationFails(r)

Spec == Init /\ [][Next]_vars

(***************************************************************************)
(* The transcript and generation cycle on its own: the synthesis           *)
(* capability is left undriven and the completions fit one chunk.  No      *)
(* action left out writes text, interimResult, isListening, isResponding,  *)
(* inflight, calls or notifications, and what the actions kept write to    *)
(* them depends on no variable the actions left out write, so every        *)
(* behaviour of Spec, restricted to those variables, is a behaviour of     *)
(* SpecRecognition.                                                        *)
(***************************************************************************)
NextRecognition ==
    \/ StartListening
    \/ OnStart
    \/ \E u \in Updates : OnResult(u)
    \/ OnEnd
    \/ OnError
    \/ \E v \in EditValues(text \o interimResult) : TextAreaChange(v)
    \/ \E r \in DOMAIN inflight, c \in ShortCompletions : GenerationSucceeds(r, c)
    \/ \E r \in DOMAIN inflight : GenerationFails(r)

SpecRecognition == Init /\ [][NextRecognition]_vars

(***************************************************************************)
(* The conversation cycle from the session to the start of the playback:   *)
(* the recognition session, the generation call and the voices of the      *)
(* synthesis capability, without edits of the text field.                  *)
(***************************************************************************)
NextConversation ==
    \/ StartListening
    \/ OnStart
    \/ \E u \in Updates : OnResult(u)
    \/ OnEnd
    \/ OnError
    \/ \E r \in DOMAIN inflight, c \in ShortCompletions : GenerationSucceeds(r, c)
    \/ \E r \in DOMAIN inflight : GenerationFails(r)
    \/ VoicesChanged

SpecConversation == Init /\ [][NextConversation]_vars

(***************************************************************************)
(* The playback cycle on its own: the prompt is typed into the text field  *)
(* and no recognition session is started.                                  *)
(***************************************************************************)
NextPlayback ==
    \/ \E v \in EditValues(text \o interimResult) : TextAreaChange(v)
    \/ \E r \in DOMAIN inflight, c \in Completions : GenerationSucceeds(r, c)
    \/ SpeakAgain
    \/ VoicesChanged
    \/ UtteranceEnd
    \/ TimerFires
    \/ StopSpeaking
    \/ \E u \in interrupted : InterruptedEnd(u)
    \/ \E u \in interrupted : InterruptedError(u)

SpecPlayback == Init /\ [][NextPlayback]_vars

(***************************************************************************)
(* The playback of a reply of two chunks, under the assumption that the    *)
(* synthesis capability signals the completion of every utterance it       *)
(* speaks and that the event loop runs every scheduled callback.           *)
(***************************************************************************)
NextSpeaking ==
    \/ \E v \in EditValues(text \o interimResult) : TextAreaChange(v)
    \/ \E r \in DOMAIN inflight : GenerationSucceeds(r, Sentence(chunkSize + 1))
    \/ SpeakAgain
    \/ VoicesChanged
    \/ UtteranceEnd
    \/ TimerFires
    \/ StopSpeaking
    \/ \E u \in interrupted : InterruptedEnd(u)
    \/ \E u \in interrupted : InterruptedError(u)

SpecSpeaking ==
    /\ Init
    /\ [][NextSpeaking]_vars
    /\ WF_vars(UtteranceEnd)
    /\ WF_vars(TimerFires)

(***************************************************************************)
(* Claims.                                                                 *)
(***************************************************************************)
\* Every transcript of fs followed by a single space, in order.
RECURSIVE ConcatFinals(_)
ConcatFinals(fs) ==
    IF fs = <<>> THEN <<>> ELSE Head(fs) \o <<" ">> \o ConcatFinals(Tail(fs))

\* The recognition session ends: its end event or its error event.
SessionEnds == rec # "idle" /\ rec' = "idle"

C2_InterimEmptyAfterEnd ==
    rec = "idle" => interimResult = <<>>

\* The words of s: the maximal runs of characters that are not whitespace.
RECURSIVE WsWordsFrom(_, _, _)
WsWordsFrom(s, i, cur) ==
    IF i > Len(s) THEN (IF cur = <<>> THEN <<>> ELSE <<cur>>)
    ELSE IF IsSpace(s[i])
         THEN (IF cur = <<>> THEN <<>> ELSE <<cur>>) \o WsWordsFrom(s, i + 1, <<>>)
         ELSE WsWordsFrom(s, i + 1, Append(cur, s[i]))

WsWords(s) == WsWordsFrom(s, 1, <<>>)

CeilDiv(a, b) == (a + b - 1) \div b

Min(a, b) == IF a < b THEN a ELSE b

\* The text of the latest speak() call is the reply: GenerationSucceeds speaks
\* the reply it has just set and SpeakAgain speaks the reply.
LatestChunks == speakCalls[Len(speakCalls)]

\* C3: speak(s), s of w whitespace-separated words, produces ceil(w/25)
\* chunks; chunk i holds the words 25(i-1)+1 .. min(25i, w) of s in order, so
\* that the chunks cover the words of s exactly once, with no gap, no empty
\* word and no reordering.
C3_ChunksCoverWords ==
    speakCalls # <<>> =>
        LET words == WsWords(response)
        IN  /\ Len(LatestChunks) = CeilDiv(Len(words), chunkSize)
            /\ \A i \in DOMAIN LatestChunks :
                  WsWords(LatestChunks[i]) =
                      SubSeq(words, chunkSize * (i - 1) + 1,
                             Min(chunkSize * i, Len(words)))

\* speak() is invoked with the empty string: the generation call resolves to
\* an empty completion.
SpeakEmpty == Len(speakCalls') = Len(speakCalls) + 1 /\ response' = <<>>

\* C4: speak("") produces zero chunks, submits no utterance, defers nothing
\* and leaves isPlaying false.
C4_SpeakEmptyIsNoOp ==
    [][SpeakEmpty =>
          /\ speakCalls'[Len(speakCalls')] = <<>>
          /\ queue' = queue
          /\ chains' = chains
          /\ onvoiceschanged' = onvoiceschanged
          /\ isSpeaking' = isSpeaking]_vars

\* The chunks of speak call s submitted so far in state chs, over all the
\* playbacks of the call.
RECURSIVE SubmittedUpTo(_, _, _)
SubmittedUpTo(chs, s, n) ==
    IF n = 0 THEN 0
    ELSE (IF chs[n].call = s THEN chs[n].cursor ELSE 0) + SubmittedUpTo(chs, s, n - 1)

Submitted(chs, s) == SubmittedUpTo(chs, s, Len(chs))

\* The completion events delivered so far to chunks of speak call s.
RECURSIVE CompletedUpTo(_, _, _)
CompletedUpTo(chs, s, n) ==
    IF n = 0 THEN 0
    ELSE (IF chs[n].call = s THEN chs[n].ended ELSE 0) + CompletedUpTo(chs, s, n - 1)

Completed(chs, s) == CompletedUpTo(chs, s, Len(chs))

\* An utterance is submitted to the synthesis capability.
Submits == Len(queue') = Len(queue) + 1

\* C5: within one speak() call, chunk 0 is submitted first and chunk i+1 is
\* submitted only after the completion event of chunk i: the chunk submitted
\* is the one after all those the call has submitted so far, and all of
\* those have completed; no chunk is skipped, repeated or out of order.
C5_SequentialCursor ==
    [][Submits =>
          LET u == queue'[Len(queue')]
              s == chains'[u.chain].call
          IN  /\ u.idx = Submitted(chains, s)
              /\ u.idx = Completed(chains, s)]_vars

\* stop() takes effect: cancel() empties the queue and interrupts the
\* utterance being spoken.
StopStep == queue # <<>> /\ queue' = <<>> /\ interrupted' # interrupted

\* C6: after stop() during chunk k of a playback, no later chunk of that
\* playback is submitted, whatever notification the capability delivers for
\* chunk k, and isPlaying is false right after the call.
C6_StopPreventsNextChunk ==
    [][/\ \A c \in DOMAIN chains :
             chains[c].stoppedAt >= 0 => chains'[c].cursor = chains[c].cursor
       /\ StopStep => ~isSpeaking']_vars

\* A playback is under way: started, not stopped, its last chunk not yet
\* completed.
UnderWay == \E c \in DOMAIN chains : ~chains[c].done /\ chains[c].stoppedAt < 0

\* C7: isPlaying is true exactly when a playback is under way.
C7_IsPlayingIffUnderWay ==
    isSpeaking <=> UnderWay

\* C8: when a generation call fails, finalizedText is unchanged, responseText
\* is not assigned, no playback is started or deferred, exactly one failure
\* notification is surfaced and isResponding is cleared.
C8_FailureKeepsState ==
    [][failed' > failed =>
          /\ text' = text
          /\ response' = response
          /\ speakCalls' = speakCalls
          /\ chains' = chains
          /\ queue' = queue
          /\ onvoiceschanged' = onvoiceschanged
          /\ isSpeaking' = isSpeaking
          /\ notifications' = notifications + 1
          /\ ~isResponding']_vars

\* The call issued for the transcript of a session has failed: one
\* notification, no reply, isResponding cleared.
C8_Witness ==
    /\ failed = 1
    /\ notifications = 1
    /\ rec = "idle"
    /\ finals # <<>>
    /\ text = ConcatFinals(finals)
    /\ response = <<>>
    /\ inflight = <<>>
    /\ ~isResponding

\* The playbacks of speak call s in state chs.
PlaybacksOf(chs, s) == { c \in DOMAIN chs : chs[c].call = s }

\* C9: a session that ends with a non-blank transcript triggers exactly one
\* generation call, whose prompt is that transcript plus the brevity suffix;
\* a session that ends with a blank transcript triggers none; on success the
\* reply is what is spoken, its playback is started (or deferred until the
\* voices are available), and no speak() call is played more than once.
C9_OneCallOnePlayback ==
    [][/\ SessionEnds =>
             IF Trim(text') # <<>>
             THEN /\ calls' = calls + 1
                  /\ Len(inflight') = Len(inflight) + 1
                  /\ inflight'[Len(inflight')] =
                        [prompt |-> text', sent |-> text' \o BrevitySuffix]
             ELSE calls' = calls /\ inflight' = inflight
       /\ succeeded' > succeeded =>
             LET s == Len(speakCalls')
             IN  /\ s = Len(speakCalls) + 1
                 /\ speakCalls'[s] = Chunks(response')
                 /\ \/ Cardinality(PlaybacksOf(chains', s)) = 1
                    \/ ~voices /\ onvoiceschanged' = s
       /\ \A s \in DOMAIN speakCalls' :
             Cardinality(PlaybacksOf(chains', s)) <= 1]_vars

\* C10: no generation call is issued while listening is true: a call is
\* issued only in a state where the recognition session is over.
C10_NoCallDuringSession ==
    [][calls' > calls => ~isListening' /\ rec' = "idle"]_vars

\* The part of C10 about the listening flag alone.
NoCallWhileListeningFlag ==
    [][calls' > calls => ~isListening']_vars

\* C11: at most one generation request is in flight at any time.
C11_OneRequestInFlight ==
    Len(inflight) <= 1

\* The playbacks that are unfinished and unstopped.
ActivePlaybacks ==
    { c \in DOMAIN chains : ~chains[c].done /\ chains[c].stoppedAt < 0 }

\* C12: a playback never begins while an earlier playback is unfinished and
\* unstopped, and the synthesis queue never holds chunks of two playbacks.
C12_OnePlaybackAtATime ==
    [][/\ Len(chains') > Len(chains) => ActivePlaybacks = {}
       /\ Cardinality(Queued') <= 1]_vars

\* C13: while the voice list is empty no chunk is submitted; the
\* voices-available notification that loads the voices then starts one
\* playback, from chunk 0, of the latest speak() call, however many speak()
\* calls were made before; and no step starts more than one playback.
C13_DeferredUntilVoices ==
    [][/\ ~voices' => queue' = <<>> /\ chains' = <<>>
       /\ (voiceEvents' > voiceEvents /\ ~voices /\ speakCalls # <<>>) =>
             /\ Len(chains') = Len(chains) + 1
             /\ chains'[Len(chains')].call = Len(speakCalls)
             /\ queue' = Append(queue, Utterance(Len(chains'), 0))
       /\ Len(chains') <= Len(chains) + 1]_vars

\* speak() was invoked twice before the voices loaded, and the notification
\* has started one playback, of the second call, at chunk 0.
C13_Witness ==
    /\ voices
    /\ voiceEvents = 1
    /\ Len(speakCalls) = 2
    /\ Len(chains) = 1
    /\ chains[1].call = 2
    /\ queue = <<Utterance(1, 0)>>

\* C14: start() on a platform without a recognition capability surfaces one
\* failure notification, begins no session and leaves listening false.
C14_StartWithoutRecognition ==
    [][(StartListening /\ ~hasRecognition) =>
          /\ notifications' = notifications + 1
          /\ recognitionRef' = "null"
          /\ rec' = "idle"
          /\ ~isListening']_vars

\* Start was clicked on a platform without recognition: one notification,
\* no session, not listening.
C14_Witness ==
    /\ ~hasRecognition
    /\ inputs = 1
    /\ notifications = 1
    /\ failed = 0
    /\ rec = "idle"
    /\ ~isListening

\* C15: a recognition error event sets listening to false, leaves
\* finalizedText, interimText and responseText unchanged and surfaces no
\* notification; the session is then over, and like a session that ended it
\* hands a non-blank transcript to the generation call.
C15_ErrorFrame ==
    [][OnError =>
          /\ ~isListening'
          /\ text' = text
          /\ interimResult' = interimResult
          /\ response' = response
          /\ notifications' = notifications
          /\ rec' = "idle"
          /\ (isListening /\ Trim(text) # <<>>) => calls' = calls + 1]_vars

\* A session that delivered a final and an interim fragment is over, as after
\* its error event: not listening, both texts kept, no notification, the
\* call for the transcript issued.
C15_Witness ==
    /\ rec = "idle"
    /\ ~isListening
    /\ ~edited
    /\ finals # <<>>
    /\ text = ConcatFinals(finals)
    /\ interimResult # <<>>
    /\ response = <<>>
    /\ notifications = 0
    /\ calls = 1

\* C16: no start() is issued, and the transcript is not cleared, between a
\* start() that begins a session and that session's end or error event: the
\* start handler runs only when no session is in progress.
C16_NoReentry ==
    [][StartListening => rec = "idle"]_vars

\* s is a prefix of t.
IsPrefix(s, t) == Len(s) <= Len(t) /\ SubSeq(t, 1, Len(s)) = s

\* C17: between start() and the session's end every step leaves
\* finalizedText unchanged or extends it at the end, and only the start() of
\* the next session resets it to empty.
C17_AppendOnly ==
    [][/\ rec # "idle" => IsPrefix(text, text')
       /\ (text # <<>> /\ text' = <<>>) => (StartListening /\ rec = "idle")]_vars

\* C18: stop() invoked while isPlaying is true sets isPlaying to false, and a
\* playback that was unfinished when stop() was invoked submits no further
\* chunk, also when it was in the hand-over between two chunks.
C18_StopAlwaysStops ==
    [][/\ StopSpeaking => ~isSpeaking'
       /\ \A c \in DOMAIN chains :
             chains[c].stopRequested => chains'[c].cursor = chains[c].cursor]_vars

\* C19: isResponding is true in every state in which a generation request is
\* in flight, so that the start control is disabled.
C19_RespondingWhileInFlight ==
    inflight # <<>> => isResponding

\* C20: if the capability signals the completion of every submitted
\* utterance, every state with isPlaying true is followed by a state with
\* isPlaying false and no chunk pending.
C20_PlaybackTerminates ==
    isSpeaking ~> (~isSpeaking /\ queue = <<>> /\ timers = <<>>)

\* A playback of two chunks has played both and has terminated.
C20_Witness ==
    /\ ~isSpeaking
    /\ queue = <<>>
    /\ timers = <<>>
    /\ \E c \in DOMAIN chains :
          /\ chains[c].done
          /\ chains[c].cursor = 2
          /\ chains[c].ended = 2
          /\ chains[c].stoppedAt < 0

\* C21: one speak() call starts playback from chunk 0 at most once: a
\* voices-available notification delivered after the deferred playback has
\* started, finished or been stopped starts no further playback of the call.
C21_PlaybackStartsOnce ==
    \A s \in DOMAIN speakCalls : Cardinality(PlaybacksOf(chains, s)) <= 1

====
